---------------------------- MODULE Spec2Model ----------------------------
(***************************************************************************)
(* A model of xyz2sgf.py: the board rule engine (Board), the game tree and *)
(* its walk (Node, load), the serializer (write_tree) and the driver       *)
(* (main).  Characters are modelled by their code points, strings by       *)
(* sequences of code points, so that decoding (ord(ch) - 96) and int() are *)
(* computed and not assumed.                                               *)
(***************************************************************************)
EXTENDS Integers, Sequences, FiniteSets, TLC

VARIABLES
    argv,       \* sys.argv[1:]: the input files, each with what its adapter builds
    fi,         \* main: the index in argv of the file being converted
    pc,         \* where the program is
    nodes,      \* the Node objects of the tree being loaded
    heap,       \* the Board objects: a node's board is an index into heap
    cur,        \* update_recursive: the variable node (0 outside the walk)
    stack,      \* update_recursive: the frames of the calls that are in their for loop
    exc,        \* the exception being propagated ("none": none)
    out,        \* the output files written: file index -> sequence of writes
    log,        \* what main did for each file, in order
    loaded,     \* the files for which load returned a tree
    board,      \* the rule engine on its own: the board
    last        \* the rule engine on its own: the last call and the grid before it

mainVars == <<argv, fi, pc, nodes, heap, cur, stack, exc, out, log, loaded>>

boardVars == <<board, last>>

vars == <<argv, fi, pc, nodes, heap, cur, stack, exc, out, log, loaded, board, last>>

\* ------------------------------------------------------------------------
\* Bounds of the model
\* ------------------------------------------------------------------------

\* Largest board size of the rule-engine specification (boards 1..MaxSize).
MaxSize == 3

\* Largest number of nodes of a tree handed to load.
MaxNodes == 4

\* Largest number of input files of main.
MaxFiles == 2

\* ------------------------------------------------------------------------
\* Program constants
\* ------------------------------------------------------------------------

EMPTY == 0

BLACK == 1

WHITE == 2

\* The default board size of load (line 284).
DefaultSize == 19

\* The history of the rule engine run on its own: no call made yet.
NoOp == [kind |-> "none", pre |-> <<>>, colour |-> 0, x |-> 0, y |-> 0,
         value |-> <<>>, exc |-> "none"]

\* ------------------------------------------------------------------------
\* Board
\* ------------------------------------------------------------------------

\* Board.__init__: self.state[x][y] is 0 everywhere.  The arrays of the
\* source are one too big and their index 0 is never used; the model keeps
\* rows and columns 1..boardsize.  stones_checked is reset at every entry
\* of group_has_liberties (line 51), so it is carried by the search and
\* not by the board value.
NewBoard(boardsize) ==
    [boardsize |-> boardsize,
     state |-> [x \in 1..boardsize |-> [y \in 1..boardsize |-> 0]]]

\* The order in which a Python set of points is iterated is left to the
\* build: an order is a permutation of the four candidates of
\* adjacent_points, and every call draws one of these.
Orders ==
    {<<1, 2, 3, 4>>, <<4, 3, 2, 1>>}

\* A plausible slip: the last candidate, (x, y + 1), left out.
adjacent_points_three(x, y, boardsize, o) ==
    LET cand == <<(<<x - 1, y>>), (<<x + 1, y>>), (<<x, y - 1>>)>>
        One(k) == IF k <= 3 /\ cand[k][1] >= 1 /\ cand[k][1] <= boardsize
                     /\ cand[k][2] >= 1 /\ cand[k][2] <= boardsize
                  THEN <<cand[k]>> ELSE <<>>
    IN  One(o[1]) \o One(o[2]) \o One(o[3]) \o One(o[4])

\* adjacent_points(x, y, boardsize): the on-board orthogonal neighbours, as
\* the sequence in which the returned set is iterated under the order o.
adjacent_points(x, y, boardsize, o) ==
    LET cand == <<(<<x - 1, y>>), (<<x + 1, y>>), (<<x, y - 1>>), (<<x, y + 1>>)>>
        One(p) == IF p[1] >= 1 /\ p[1] <= boardsize
                     /\ p[2] >= 1 /\ p[2] <= boardsize
                  THEN <<p>> ELSE <<>>
    IN  One(cand[o[1]]) \o One(cand[o[2]]) \o One(cand[o[3]]) \o One(cand[o[4]])

RECURSIVE GhlVisit(_, _, _, _, _, _)
RECURSIVE GhlLoop(_, _, _, _, _, _, _, _)

\* Board.__group_has_liberties(x, y): returns [res, checked, visits, ok];
\* checked is self.stones_checked, visits the stones in the order of the
\* calls, ok is FALSE when an assertion (lines 55, 57) fails.
GhlVisit(st, n, p, checked, visits, o) ==
    IF ~(p[1] >= 1 /\ p[1] <= n /\ p[2] >= 1 /\ p[2] <= n)
       \/ st[p[1]][p[2]] \notin {BLACK, WHITE}
    THEN [res |-> FALSE, checked |-> checked, visits |-> visits, ok |-> FALSE]
    ELSE GhlLoop(st, n, st[p[1]][p[2]], adjacent_points(p[1], p[2], n, o), 1,
                 checked \cup {p}, Append(visits, p), o)

\* The loop of lines 61-68 from its i-th neighbour on.
GhlLoop(st, n, colour, nbrs, i, checked, visits, o) ==
    IF i > Len(nbrs)
    THEN [res |-> FALSE, checked |-> checked, visits |-> visits, ok |-> TRUE]
    ELSE IF st[nbrs[i][1]][nbrs[i][2]] = EMPTY
    THEN [res |-> TRUE, checked |-> checked, visits |-> visits, ok |-> TRUE]
    ELSE IF st[nbrs[i][1]][nbrs[i][2]] = colour /\ nbrs[i] \notin checked
    THEN LET r == GhlVisit(st, n, nbrs[i], checked, visits, o)
         IN  IF r.res \/ ~r.ok
             THEN r
             ELSE GhlLoop(st, n, colour, nbrs, i + 1, r.checked, r.visits, o)
    ELSE GhlLoop(st, n, colour, nbrs, i + 1, checked, visits, o)

\* Board.group_has_liberties(x, y): stones_checked reset, then the search.
group_has_liberties(st, n, p, o) ==
    IF ~(p[1] >= 1 /\ p[1] <= n /\ p[2] >= 1 /\ p[2] <= n)
    THEN [res |-> FALSE, checked |-> {}, visits |-> <<>>, ok |-> FALSE]
    ELSE GhlVisit(st, n, p, {}, <<>>, o)

RECURSIVE destroy_group(_, _, _, _)
RECURSIVE DestroyLoop(_, _, _, _, _, _)

\* Board.destroy_group(x, y): returns [st, ok]; ok is FALSE when an
\* assertion (lines 91, 93) fails.
destroy_group(st, n, p, o) ==
    IF ~(p[1] >= 1 /\ p[1] <= n /\ p[2] >= 1 /\ p[2] <= n)
       \/ st[p[1]][p[2]] \notin {BLACK, WHITE}
    THEN [st |-> st, ok |-> FALSE]
    ELSE DestroyLoop([st EXCEPT ![p[1]][p[2]] = EMPTY], n, st[p[1]][p[2]],
                     adjacent_points(p[1], p[2], n, o), 1, o)

\* The loop of lines 97-99 from its i-th neighbour on.
DestroyLoop(st, n, colour, nbrs, i, o) ==
    IF i > Len(nbrs)
    THEN [st |-> st, ok |-> TRUE]
    ELSE IF st[nbrs[i][1]][nbrs[i][2]] = colour
    THEN LET r == destroy_group(st, n, nbrs[i], o)
         IN  IF ~r.ok THEN r ELSE DestroyLoop(r.st, n, colour, nbrs, i + 1, o)
    ELSE DestroyLoop(st, n, colour, nbrs, i + 1, o)

RECURSIVE CaptureLoop(_, _, _, _, _, _)

\* The loop of lines 80-83 of play_move from its i-th neighbour on.
CaptureLoop(st, n, opponent, nbrs, i, o) ==
    IF i > Len(nbrs)
    THEN [st |-> st, ok |-> TRUE]
    ELSE IF st[nbrs[i][1]][nbrs[i][2]] = opponent
    THEN LET g == group_has_liberties(st, n, nbrs[i], o)
         IN  IF ~g.ok
             THEN [st |-> st, ok |-> FALSE]
             ELSE IF ~g.res
             THEN LET d == destroy_group(st, n, nbrs[i], o)
                  IN  IF ~d.ok THEN d
                      ELSE CaptureLoop(d.st, n, opponent, nbrs, i + 1, o)
             ELSE CaptureLoop(st, n, opponent, nbrs, i + 1, o)
    ELSE CaptureLoop(st, n, opponent, nbrs, i + 1, o)

\* A plausible slip: the placed stone's own group is never tested.
SuicideCheck_skipped(st, n, p, o) == [st |-> st, ok |-> TRUE]

\* Lines 85-88 of play_move: the suicide check on the placed stone.
SuicideCheck(st, n, p, o) ==
    LET g == group_has_liberties(st, n, p, o)
    IN  IF ~g.ok
        THEN [st |-> st, ok |-> FALSE]
        ELSE IF ~g.res THEN destroy_group(st, n, p, o)
        ELSE [st |-> st, ok |-> TRUE]

\* A plausible slip: the suicide check made before the captures.
play_move_suicide_first(b, colour, x, y, o) ==
    IF colour \notin {BLACK, WHITE}
    THEN [board |-> b, exc |-> "AssertionError"]
    ELSE IF x < 1 \/ x > b.boardsize \/ y < 1 \/ y > b.boardsize
    THEN [board |-> b, exc |-> "NameError"]
    ELSE LET opponent == IF colour = WHITE THEN BLACK ELSE WHITE
             placed == [b.state EXCEPT ![x][y] = colour]
             own == SuicideCheck(placed, b.boardsize, <<x, y>>, o)
             cap == CaptureLoop(own.st, b.boardsize, opponent,
                                adjacent_points(x, y, b.boardsize, o), 1, o)
         IN  [board |-> [b EXCEPT !.state = cap.st], exc |-> "none"]

\* Board.play_move(colour, x, y): returns [board, exc].  OffBoard is a name
\* the module never defines, so "raise OffBoard" (line 76) raises NameError.
play_move(b, colour, x, y, o) ==
    IF colour \notin {BLACK, WHITE}
    THEN [board |-> b, exc |-> "AssertionError"]
    ELSE IF x < 1 \/ x > b.boardsize \/ y < 1 \/ y > b.boardsize
    THEN [board |-> b, exc |-> "NameError"]
    ELSE LET opponent == IF colour = WHITE THEN BLACK ELSE WHITE
             placed == [b.state EXCEPT ![x][y] = colour]
             cap == CaptureLoop(placed, b.boardsize, opponent,
                                adjacent_points(x, y, b.boardsize, o), 1, o)
             own == IF cap.ok
                    THEN SuicideCheck(cap.st, b.boardsize, <<x, y>>, o)
                    ELSE cap
         IN  [board |-> [b EXCEPT !.state = own.st],
              exc |-> IF own.ok THEN "none" ELSE "AssertionError"]

\* ------------------------------------------------------------------------
\* Strings and setup properties
\* ------------------------------------------------------------------------

\* A plausible slip: W played before B.
movers_reversed == <<[key |-> <<87>>, colour |-> WHITE], [key |-> <<66>>, colour |-> BLACK]>>

\* The dictionaries of Node.update, in their iteration order; a key is the
\* sequence of its characters' code points ("B" is <<66>>).
movers == <<[key |-> <<66>>, colour |-> BLACK], [key |-> <<87>>, colour |-> WHITE]>>

adders ==
    <<[key |-> <<65, 66>>, colour |-> BLACK],
      [key |-> <<65, 87>>, colour |-> WHITE],
      [key |-> <<65, 69>>, colour |-> EMPTY]>>

\* A plausible slip: the corners not swapped when given high before low.
points_from_points_string_unordered(s, boardsize) ==
    IF Len(s) < 2
    THEN {}
    ELSE {p \in ((s[1] - 96)..(s[Len(s) - 1] - 96))
                   \X ((s[2] - 96)..(s[Len(s)] - 96)) :
             /\ 1 <= p[1] /\ p[1] <= boardsize
             /\ 1 <= p[2] /\ p[2] <= boardsize}

\* points_from_points_string(s, boardsize): the points of "aa" or "cd:jf".
points_from_points_string(s, boardsize) ==
    IF Len(s) < 2
    THEN {}
    ELSE LET left0 == s[1] - 96
             top0 == s[2] - 96
             right0 == s[Len(s) - 1] - 96
             bottom0 == s[Len(s)] - 96
             left == IF left0 > right0 THEN right0 ELSE left0
             right == IF left0 > right0 THEN left0 ELSE right0
             top == IF top0 > bottom0 THEN bottom0 ELSE top0
             bottom == IF top0 > bottom0 THEN top0 ELSE bottom0
         IN  {p \in (left..right) \X (top..bottom) :
                 /\ 1 <= p[1] /\ p[1] <= boardsize
                 /\ 1 <= p[2] /\ p[2] <= boardsize}

\* Lines 142-144 of Node.update for one value: every point of the value is
\* set to the adder's colour.
AddValue(b, colour, value) ==
    LET pts == points_from_points_string(value, b.boardsize)
    IN  [b EXCEPT !.state =
            [x \in 1..b.boardsize |-> [y \in 1..b.boardsize |->
                IF <<x, y>> \in pts THEN colour ELSE b.state[x][y]]]]

\* ------------------------------------------------------------------------
\* Node: properties
\* ------------------------------------------------------------------------

\* A properties dict is the sequence of its entries [key, vals] in
\* insertion order; keys and values are sequences of code points.

HasKey(props, key) == \E i \in 1..Len(props) : props[i].key = key

Lookup(props, key) ==
    props[CHOOSE i \in 1..Len(props) : props[i].key = key].vals

RECURSIVE StrOfNat(_)

\* str() of a natural number: its decimal digits.
StrOfNat(n) == IF n < 10 THEN <<48 + n>> ELSE StrOfNat(n \div 10) \o <<48 + (n % 10)>>

\* str() of an int.
StrOfInt(n) == IF n < 0 THEN <<45>> \o StrOfNat(-n) ELSE StrOfNat(n)

RECURSIVE NatOfDigits(_, _)

\* The number written by the first k characters of the digit string s.
NatOfDigits(s, k) == IF k = 0 THEN 0 ELSE 10 * NatOfDigits(s, k - 1) + (s[k] - 48)

\* int() of a string written by str() of an int: an optional sign, then
\* digits; anything else raises ValueError.
IntOf(s) ==
    LET signed == Len(s) >= 1 /\ s[1] \in {43, 45}
        digits == IF signed THEN SubSeq(s, 2, Len(s)) ELSE s
    IN  IF Len(digits) = 0 \/ \E i \in 1..Len(digits) : digits[i] \notin 48..57
        THEN [ok |-> FALSE, val |-> 0]
        ELSE [ok |-> TRUE,
              val |-> IF signed /\ s[1] = 45
                      THEN -NatOfDigits(digits, Len(digits))
                      ELSE NatOfDigits(digits, Len(digits))]

\* A plausible slip: the value added to the key's list instead of
\* replacing it.
set_value_appending(props, key, value) ==
    IF HasKey(props, key)
    THEN [i \in 1..Len(props) |->
            IF props[i].key = key
            THEN [key |-> key, vals |-> Append(props[i].vals, value)]
            ELSE props[i]]
    ELSE Append(props, [key |-> key, vals |-> <<value>>])

\* Node.set_value(key, value), value already a string: the key holds the
\* one value; a key already present keeps its place in the dict.
set_value(props, key, value) ==
    IF HasKey(props, key)
    THEN [i \in 1..Len(props) |->
            IF props[i].key = key THEN [key |-> key, vals |-> <<value>>]
            ELSE props[i]]
    ELSE Append(props, [key |-> key, vals |-> <<value>>])

\* ------------------------------------------------------------------------
\* Node.update
\* ------------------------------------------------------------------------

\* "except (IndexError, OffBoard)": the clause is evaluated when an
\* exception reaches it, and OffBoard is a name the module never defines,
\* so whatever was raised the clause itself raises NameError.
except_clause(raised) == "NameError"

RECURSIVE UpdateMovers(_, _, _, _, _)

\* Lines 121-130 from the k-th mover on: returns [board, moves_made, exc].
UpdateMovers(b, mm, props, k, o) ==
    IF k > Len(movers)
    THEN [board |-> b, moves_made |-> mm, exc |-> "none"]
    ELSE IF ~HasKey(props, movers[k].key)
    THEN UpdateMovers(b, mm, props, k + 1, o)
    ELSE LET movestring == Lookup(props, movers[k].key)[1]
             r == IF Len(movestring) < 2
                  THEN [board |-> b, exc |-> "IndexError"]
                  ELSE play_move(b, movers[k].colour,
                                 movestring[1] - 96, movestring[2] - 96, o)
             e == IF r.exc = "none" THEN "none" ELSE except_clause(r.exc)
         IN  IF e # "none"
             THEN [board |-> r.board, moves_made |-> mm, exc |-> e]
             ELSE UpdateMovers(r.board, mm + 1, props, k + 1, o)

RECURSIVE AddValues(_, _, _, _)

\* Lines 141-144: the values of one adder key, from the i-th on.
AddValues(b, colour, vals, i) ==
    IF i > Len(vals) THEN b
    ELSE AddValues(AddValue(b, colour, vals[i]), colour, vals, i + 1)

RECURSIVE UpdateAdders(_, _, _)

\* Lines 139-144 from the k-th adder on.
UpdateAdders(b, props, k) ==
    IF k > Len(adders) THEN b
    ELSE IF ~HasKey(props, adders[k].key) THEN UpdateAdders(b, props, k + 1)
    ELSE UpdateAdders(AddValues(b, adders[k].colour,
                                Lookup(props, adders[k].key), 1), props, k + 1)

\* Node.update(): the movers, then the adders; returns [board, moves_made,
\* exc] (an exception leaves what was done before it).
update(b, mm, props, o) ==
    LET m == UpdateMovers(b, mm, props, 1, o)
    IN  IF m.exc # "none" THEN m
        ELSE [board |-> UpdateAdders(m.board, props, 1),
              moves_made |-> m.moves_made, exc |-> "none"]

\* ------------------------------------------------------------------------
\* The tree
\* ------------------------------------------------------------------------

\* Node.__init__ appends the new node to its parent's children: with the
\* nodes numbered in creation order, node.children is the increasing
\* sequence of the nodes whose parent it is (parent[1] = 0: the root).
Children(parent, n) ==
    LET IsChild(i) == parent[i] = n
    IN  SelectSeq([i \in 1..Len(parent) |-> i], IsChild)

\* The nodes as the adapter leaves them (Node.__init__, then the
\* properties it sets).
NewNodes(file) ==
    [i \in 1..Len(file.parent) |->
        [props |-> file.props[i], board |-> 0, moves_made |-> 0,
         is_main_line |-> FALSE]]

\* A plausible slip: the child given the parent's Board object itself.
copy_state_to_child_shared(ns, hp, parent, self, child) ==
    LET kids == Children(parent, self)
        main == IF Len(kids) > 0 /\ child = kids[1] /\ ns[self].is_main_line
                THEN TRUE ELSE ns[child].is_main_line
    IN  [nodes |-> [ns EXCEPT ![child].is_main_line = main,
                               ![child].board = ns[self].board,
                               ![child].moves_made = ns[self].moves_made],
         heap |-> hp]

\* A plausible slip: every child of a main-line node marked main line.
copy_state_to_child_every(ns, hp, parent, self, child) ==
    [nodes |-> [ns EXCEPT ![child].is_main_line = ns[self].is_main_line,
                          ![child].board = Len(hp) + 1,
                          ![child].moves_made = ns[self].moves_made],
     heap |-> Append(hp, hp[ns[self].board])]

\* A plausible slip: the child's move count not taken from the parent.
copy_state_to_child_uncounted(ns, hp, parent, self, child) ==
    LET kids == Children(parent, self)
        main == IF Len(kids) > 0 /\ child = kids[1] /\ ns[self].is_main_line
                THEN TRUE ELSE ns[child].is_main_line
    IN  [nodes |-> [ns EXCEPT ![child].is_main_line = main,
                              ![child].board = Len(hp) + 1],
         heap |-> Append(hp, hp[ns[self].board])]

\* Node.copy_state_to_child(child): returns [nodes, heap]; deepcopy makes a
\* new Board object with the parent's content.
copy_state_to_child(ns, hp, parent, self, child) ==
    LET kids == Children(parent, self)
        main == IF Len(kids) > 0 /\ child = kids[1] /\ ns[self].is_main_line
                THEN TRUE ELSE ns[child].is_main_line
    IN  [nodes |-> [ns EXCEPT ![child].is_main_line = main,
                              ![child].board = Len(hp) + 1,
                              ![child].moves_made = ns[self].moves_made],
         heap |-> Append(hp, hp[ns[self].board])]

\* ------------------------------------------------------------------------
\* load: the root
\* ------------------------------------------------------------------------

\* A plausible slip: size 0 let through.
BadSize_zero(size) == size > 19 \/ size < 0

\* Line 287.
BadSize(size) == size > 19 \/ size < 1

\* Lines 277-288: returns [props, size, exc].
load_root(props) ==
    LET p1 == set_value(props, <<70, 70>>, StrOfInt(4))
        p2 == set_value(p1, <<71, 77>>, StrOfInt(1))
        p3 == set_value(p2, <<67, 65>>, <<85, 84, 70, 45, 56>>)
        has == HasKey(p3, <<83, 90>>)
        parsed == IF has THEN IntOf(Lookup(p3, <<83, 90>>)[1])
                  ELSE [ok |-> TRUE, val |-> DefaultSize]
        p4 == IF has THEN p3 ELSE set_value(p3, <<83, 90>>, <<49, 57>>)
    IN  IF ~parsed.ok
        THEN [props |-> p3, size |-> 0, exc |-> "ValueError"]
        ELSE IF BadSize(parsed.val)
        THEN [props |-> p4, size |-> parsed.val, exc |-> "BadBoardSize"]
        ELSE [props |-> p4, size |-> parsed.val, exc |-> "none"]

\* ------------------------------------------------------------------------
\* write_tree
\* ------------------------------------------------------------------------

RECURSIVE WriteValues(_, _)

\* Lines 311-312: one write of "[value]" per value, from the i-th on.
WriteValues(vals, i) ==
    IF i > Len(vals) THEN <<>>
    ELSE <<(<<91>> \o vals[i] \o <<93>>)>> \o WriteValues(vals, i + 1)

RECURSIVE WriteProps(_, _)

\* Lines 309-312: the key, then its values, from the i-th key on.
WriteProps(props, i) ==
    IF i > Len(props) THEN <<>>
    ELSE <<props[i].key>> \o WriteValues(props[i].vals, 1)
         \o WriteProps(props, i + 1)

RECURSIVE write_tree(_, _, _)
RECURSIVE WriteChain(_, _, _)
RECURSIVE WriteChildren(_, _, _, _)

\* A plausible slip: a parenthesis opened for an only child too.
WriteChain_paren(ns, parent, node) ==
    LET kids == Children(parent, node)
    IN  <<(<<59>>)>> \o WriteProps(ns[node].props, 1)
        \o (IF Len(kids) >= 1 THEN WriteChildren(ns, parent, kids, 1)
            ELSE <<>>)

\* The while loop of write_tree (lines 307-321) from the node on: the
\* sequence of the strings written.
WriteChain(ns, parent, node) ==
    LET kids == Children(parent, node)
    IN  <<(<<59>>)>> \o WriteProps(ns[node].props, 1)
        \o (IF Len(kids) > 1 THEN WriteChildren(ns, parent, kids, 1)
            ELSE IF Len(kids) = 1 THEN WriteChain(ns, parent, kids[1])
            ELSE <<>>)

\* Lines 314-315: write_tree of each child, from the i-th on.
WriteChildren(ns, parent, kids, i) ==
    IF i > Len(kids) THEN <<>>
    ELSE write_tree(ns, parent, kids[i]) \o WriteChildren(ns, parent, kids, i + 1)

\* write_tree(outfile, node): "(", the chain, ")\n".
write_tree(ns, parent, node) ==
    <<(<<40>>)>> \o WriteChain(ns, parent, node) \o <<(<<41, 10>>)>>

\* ------------------------------------------------------------------------
\* Inputs
\* ------------------------------------------------------------------------

\* a is b or an ancestor of b.
IsAncestorOrSelf(parent, a, b) ==
    LET RECURSIVE Up(_)
        Up(n) == IF n = a THEN TRUE ELSE IF n <= 1 THEN FALSE ELSE Up(parent[n])
    IN  Up(b)

\* The trees of k nodes, each once: the nodes are numbered depth first (a
\* node is a child of the node before it or of one of its ancestors).
Shapes(k) ==
    {p \in [1..k -> 0..(k - 1)] :
        /\ p[1] = 0
        /\ \A i \in 2..k : p[i] >= 1 /\ p[i] < i /\ IsAncestorOrSelf(p, p[i], i - 1)}

Prop(key, vals) == [key |-> key, vals |-> vals]

\* What an adapter may leave on a node that is not the root: B[aa]; W[ab];
\* W[aa] and B[aa] (W stored first); the pass B[]; AB[ba][ab] and AE[aa].
NodeProps ==
    {<<Prop(<<66>>, <<(<<97, 97>>)>>)>>,
     <<Prop(<<87>>, <<(<<97, 98>>)>>)>>,
     <<Prop(<<87>>, <<(<<97, 97>>)>>), Prop(<<66>>, <<(<<97, 97>>)>>)>>,
     <<Prop(<<66>>, <<(<<>>)>>)>>,
     <<Prop(<<65, 66>>, <<(<<98, 97>>), (<<97, 98>>)>>),
       Prop(<<65, 69>>, <<(<<97, 97>>)>>)>>}

\* What an adapter may leave on the root with a board size load accepts:
\* nothing; SZ[2]; GM[2] SZ[1] FF[3] AW[aa].
SizedRoots ==
    {<<>>,
     <<Prop(<<83, 90>>, <<StrOfInt(2)>>)>>,
     <<Prop(<<71, 77>>, <<StrOfInt(2)>>), Prop(<<83, 90>>, <<StrOfInt(1)>>),
       Prop(<<70, 70>>, <<StrOfInt(3)>>), Prop(<<65, 87>>, <<(<<97, 97>>)>>)>>}

\* Roots with the sizes 0, 20 and -1.
OddRoots ==
    {<<Prop(<<83, 90>>, <<StrOfInt(0)>>)>>,
     <<Prop(<<83, 90>>, <<StrOfInt(20)>>)>>,
     <<Prop(<<83, 90>>, <<StrOfInt(-1)>>)>>}

RootProps == SizedRoots \cup OddRoots

File(ext, readable, parent, props) ==
    [ext |-> ext, readable |-> readable, parent |-> parent, props |-> props]

\* The files whose adapter builds a tree of k nodes on one of the roots.
TreesOf(k, roots) ==
    {File("gib", TRUE, p, <<r>> \o t) :
        p \in Shapes(k), r \in roots, t \in [1..(k - 1) -> NodeProps]}

\* The files of the tree walk: every tree of up to MaxNodes nodes with the
\* properties above (a tree of one node: the adapter has found no move); a
\* root of size 0, 20 or -1 alone or with one child.
TreeFiles ==
    UNION {TreesOf(k, SizedRoots) : k \in 1..MaxNodes}
    \cup TreesOf(1, OddRoots) \cup TreesOf(2, OddRoots)

\* With them a file with an unknown extension and one that cannot be opened.
WalkFiles ==
    TreeFiles
    \cup {File("txt", TRUE, <<0>>, <<(<<>>)>>), File("ngf", FALSE, <<0>>, <<(<<>>)>>)}

\* The files of main: unknown extension, unreadable, no move found, board
\* size 20, a pass, a game of one move.
MainFiles ==
    {File("txt", TRUE, <<0>>, <<(<<>>)>>),
     File("ngf", FALSE, <<0>>, <<(<<>>)>>),
     File("gib", TRUE, <<0>>, <<(<<>>)>>),
     File("ugi", TRUE, <<0, 1>>,
          <<(<<Prop(<<83, 90>>, <<StrOfInt(20)>>)>>),
            (<<Prop(<<66>>, <<(<<97, 97>>)>>)>>)>>),
     File("ugf", TRUE, <<0, 1>>,
          <<(<<Prop(<<83, 90>>, <<StrOfInt(2)>>)>>),
            (<<Prop(<<66>>, <<(<<>>)>>)>>)>>),
     File("ngf", TRUE, <<0, 1>>,
          <<(<<Prop(<<83, 90>>, <<StrOfInt(2)>>)>>),
            (<<Prop(<<66>>, <<(<<97, 97>>)>>)>>)>>)}

\* ------------------------------------------------------------------------
\* main, load and the tree walk
\* ------------------------------------------------------------------------

\* The parent links of the tree being loaded.
Parent == argv[fi].parent

IdleBoard == NewBoard(1)

MainInitWith(files) ==
    /\ argv = files
    /\ fi = 0
    /\ pc = "main"
    /\ nodes = <<>>
    /\ heap = <<>>
    /\ cur = 0
    /\ stack = <<>>
    /\ exc = "none"
    /\ out = <<>>
    /\ log = <<>>
    /\ loaded = {}
    /\ board = IdleBoard
    /\ last = NoOp

\* One file, or none, out of the files of the tree walk.
Init == \E files \in {<<>>} \cup {<<f>> : f \in WalkFiles} : MainInitWith(files)

\* Up to MaxFiles files out of the files of main.
MainInit ==
    \E files \in UNION {[1..k -> MainFiles] : k \in 0..MaxFiles} :
        MainInitWith(files)

\* A plausible slip: a failed conversion ends the loop.
AfterFile_abort(failed) ==
    IF failed THEN "done" ELSE "main"

\* Where main goes after a file: the for loop of line 599 goes on whether
\* the conversion failed or not.
AfterFile(failed) == "main"

\* main, lines 595-599: the usage message without files, else the next
\* file of the list, until there is none.
MainNext ==
    /\ pc = "main"
    /\ IF fi < Len(argv)
       THEN /\ fi' = fi + 1
            /\ pc' = "load"
       ELSE /\ fi' = fi
            /\ pc' = "done"
    /\ nodes' = <<>>
    /\ heap' = <<>>
    /\ UNCHANGED <<argv, cur, stack, exc, out, log, loaded, board, last>>

\* load, lines 253-275: the file is read, its extension chooses the
\* adapter, and the adapter builds the nodes or raises ParserFail when it
\* has found no move (lines 463, 522, 587).
LoadParse ==
    /\ pc = "load"
    /\ LET file == argv[fi]
           raised == IF ~file.readable THEN "FileNotFoundError"
                     ELSE IF file.ext \notin {"gib", "ngf", "ugf", "ugi"}
                     THEN "UnknownFormat"
                     ELSE IF Len(Children(file.parent, 1)) = 0 THEN "ParserFail"
                     ELSE "none"
       IN  /\ exc' = raised
           /\ pc' = IF raised = "none" THEN "root" ELSE "except"
           /\ nodes' = IF raised = "none" THEN NewNodes(file) ELSE nodes
    /\ UNCHANGED <<argv, fi, heap, cur, stack, out, log, loaded, board, last>>

\* load, lines 277-294: the root's FF, GM, CA and SZ, the size check, the
\* root's board and main-line flag.
LoadRoot ==
    /\ pc = "root"
    /\ \E r \in {load_root(nodes[1].props)} :
          /\ exc' = r.exc
          /\ IF r.exc = "none"
             THEN /\ nodes' = [nodes EXCEPT ![1].props = r.props,
                                            ![1].board = Len(heap) + 1,
                                            ![1].is_main_line = TRUE]
                  /\ heap' = Append(heap, NewBoard(r.size))
                  /\ cur' = 1
                  /\ pc' = "update"
             ELSE /\ nodes' = [nodes EXCEPT ![1].props = r.props]
                  /\ heap' = heap
                  /\ cur' = cur
                  /\ pc' = "except"
    /\ UNCHANGED <<argv, fi, stack, out, log, loaded, board, last>>

\* update_recursive, line 149: node.update().
WalkUpdate ==
    /\ pc = "update"
    /\ \E o \in Orders :
        \E r \in {update(heap[nodes[cur].board], nodes[cur].moves_made,
                         nodes[cur].props, o)} :
          /\ heap' = [heap EXCEPT ![nodes[cur].board] = r.board]
          /\ nodes' = [nodes EXCEPT ![cur].moves_made = r.moves_made]
          /\ exc' = r.exc
          /\ pc' = IF r.exc = "none" THEN "branch" ELSE "except"
    /\ UNCHANGED <<argv, fi, cur, stack, out, log, loaded, board, last>>

\* update_recursive, lines 150-159: no child, return; one child, the loop
\* goes on with it; more, the for loop starts with the first child.
WalkBranch ==
    /\ pc = "branch"
    /\ LET kids == Children(Parent, cur)
       IN  IF Len(kids) = 0
           THEN /\ pc' = "return"
                /\ UNCHANGED <<nodes, heap, cur, stack>>
           ELSE \E c \in {copy_state_to_child(nodes, heap, Parent, cur, kids[1])} :
                  /\ nodes' = c.nodes
                  /\ heap' = c.heap
                  /\ cur' = kids[1]
                  /\ pc' = "update"
                  /\ stack' = IF Len(kids) = 1 THEN stack
                              ELSE Append(stack, [node |-> cur, idx |-> 1])
    /\ UNCHANGED <<argv, fi, exc, out, log, loaded, board, last>>

\* A call of update_recursive returns: into the for loop of its caller
\* (lines 157-160), which goes on with the next child or returns in turn,
\* or, for the root's call, into load, which returns the root (line 297).
WalkReturn ==
    /\ pc = "return"
    /\ IF Len(stack) = 0
       THEN /\ pc' = "save"
            /\ cur' = 0
            /\ loaded' = loaded \cup {fi}
            /\ UNCHANGED <<nodes, heap, stack>>
       ELSE LET top == stack[Len(stack)]
                kids == Children(Parent, top.node)
            IN  IF top.idx < Len(kids)
                THEN \E c \in {copy_state_to_child(nodes, heap, Parent, top.node,
                                                   kids[top.idx + 1])} :
                       /\ nodes' = c.nodes
                       /\ heap' = c.heap
                       /\ cur' = kids[top.idx + 1]
                       /\ pc' = "update"
                       /\ stack' = [stack EXCEPT ![Len(stack)].idx = top.idx + 1]
                       /\ loaded' = loaded
                ELSE /\ stack' = SubSeq(stack, 1, Len(stack) - 1)
                     /\ pc' = "return"
                     /\ UNCHANGED <<nodes, heap, cur, loaded>>
    /\ UNCHANGED <<argv, fi, exc, out, log, board, last>>

\* main, lines 602-603, and save_file: the tree is written to <name>.sgf.
Save ==
    /\ pc = "save"
    /\ out' = Append(out, [file |-> fi, text |-> write_tree(nodes, Parent, 1)])
    /\ log' = Append(log, [file |-> fi, did |-> "written"])
    /\ pc' = AfterFile(FALSE)
    /\ UNCHANGED <<argv, fi, nodes, heap, cur, stack, exc, loaded, board, last>>

\* main, lines 604-608: whatever was raised is caught and reported.
Report ==
    /\ pc = "except"
    /\ log' = Append(log, [file |-> fi, did |-> "failed"])
    /\ exc' = "none"
    /\ cur' = 0
    /\ stack' = <<>>
    /\ pc' = AfterFile(TRUE)
    /\ UNCHANGED <<argv, fi, nodes, heap, out, loaded, board, last>>

Next ==
    \/ MainNext
    \/ LoadParse
    \/ LoadRoot
    \/ WalkUpdate
    \/ WalkBranch
    \/ WalkReturn
    \/ Save
    \/ Report

\* load on one file.
Spec == Init /\ [][Next]_vars

\* main on a list of files; the program is one thread that runs until it
\* returns, so a step that can be taken is taken.
SpecMain == MainInit /\ [][Next]_vars /\ WF_vars(Next)

\* ------------------------------------------------------------------------
\* The rule engine on its own: every board of size 1..MaxSize, one call
\* ------------------------------------------------------------------------

\* Every grid of size n (setup properties can build each of them).
AllBoards(n) ==
    {[boardsize |-> n,
      state |-> st] : st \in [1..n -> [1..n -> {EMPTY, BLACK, WHITE}]]}

\* The main program's variables while the rule engine is run on its own.
MainIdle ==
    /\ argv = <<>>
    /\ fi = 0
    /\ pc = "done"
    /\ nodes = <<>>
    /\ heap = <<>>
    /\ cur = 0
    /\ stack = <<>>
    /\ exc = "none"
    /\ out = <<>>
    /\ log = <<>>
    /\ loaded = {}

BoardInit ==
    /\ MainIdle
    /\ \E n \in 1..MaxSize : board \in AllBoards(n)
    /\ last = NoOp

\* One call of play_move and what the history keeps of it.
PlayStep(b, colour, x, y, o) ==
    LET r == play_move(b, colour, x, y, o)
    IN  [board |-> r.board,
         last |-> IF r.exc = "none"
                  THEN [kind |-> "play", pre |-> b.state, colour |-> colour,
                        x |-> x, y |-> y, value |-> <<>>, exc |-> "none"]
                  ELSE [NoOp EXCEPT !.kind = "play", !.exc = r.exc]]

\* One call of play_move on the board, on or off the board.
PlayMove ==
    /\ last.kind = "none"
    /\ \E colour \in {BLACK, WHITE}, x, y \in 0..(board.boardsize + 1) :
        \E o \in IF x \in 1..board.boardsize /\ y \in 1..board.boardsize
                 THEN Orders ELSE {<<1, 2, 3, 4>>} :
          \E r \in {PlayStep(board, colour, x, y, o)} :
              /\ board' = r.board
              /\ last' = r.last
    /\ UNCHANGED mainVars

BoardNext == PlayMove

SpecBoard == BoardInit /\ [][BoardNext]_vars

\* ------------------------------------------------------------------------
\* Setup values on their own: a few boards of each size, one value applied
\* ------------------------------------------------------------------------

\* Boards a setup value is applied to: uniform ones and a mixed one.
SetupBoards(n) ==
    {[boardsize |-> n, state |-> [x \in 1..n |-> [y \in 1..n |-> c]]] :
        c \in {EMPTY, BLACK, WHITE}}
    \cup {[boardsize |-> n,
           state |-> [x \in 1..n |-> [y \in 1..n |-> (x + 2 * y) % 3]]]}

\* The values applied on a board of size n: every string of up to three
\* characters that decode to 0..n+1, every "xy:zw" of such characters, and
\* on the default board ranges between (4,4), (16,16) and (19,20).
SetupValues(n) ==
    IF n = DefaultSize
    THEN {<<100, 100, 58, 112, 112>>, <<112, 112, 58, 100, 100>>,
          <<100, 112, 58, 112, 100>>, <<100, 100>>, <<115, 115, 58, 116, 116>>,
          <<>>, <<112>>}
    ELSE LET chars == 96..(96 + n + 1)
         IN  UNION {[1..k -> chars] : k \in 0..3}
             \cup {<<a, b, 58, c, d>> : a \in chars, b \in chars,
                                        c \in chars, d \in chars}

SetupInit ==
    /\ MainIdle
    /\ \E n \in (1..MaxSize) \cup {DefaultSize} : board \in SetupBoards(n)
    /\ last = NoOp

\* One value of one of AB, AW, AE applied to the board.
AddStones ==
    /\ last.kind = "none"
    /\ \E k \in 1..Len(adders), value \in SetupValues(board.boardsize) :
          /\ board' = AddValue(board, adders[k].colour, value)
          /\ last' = [NoOp EXCEPT !.kind = "add", !.pre = board.state,
                                  !.colour = adders[k].colour, !.value = value]
    /\ UNCHANGED mainVars

SetupNext == AddStones

SpecSetup == SetupInit /\ [][SetupNext]_vars

\* ------------------------------------------------------------------------
\* Reference definitions of the rules (glossary of the specification)
\* ------------------------------------------------------------------------

RefPoints(n) == (1..n) \X (1..n)

RefAbs(i) == IF i < 0 THEN -i ELSE i

\* Points sharing an edge.
RefTouch(p, q) == RefAbs(p[1] - q[1]) + RefAbs(p[2] - q[2]) = 1

RECURSIVE RefGrow(_, _, _, _)

\* The closure of the set g under same-coloured touching points.
RefGrow(st, n, colour, g) ==
    LET more == {q \in RefPoints(n) \ g :
                    st[q[1]][q[2]] = colour /\ \E p \in g : RefTouch(p, q)}
    IN  IF more = {} THEN g ELSE RefGrow(st, n, colour, g \cup more)

\* Group: the maximal set of same-coloured stones connected through edges.
RefGroup(st, n, p) == RefGrow(st, n, st[p[1]][p[2]], {p})

\* Liberty: an empty point touching a stone of the group.
RefHasLiberty(st, n, p) ==
    LET g == RefGroup(st, n, p)
    IN  \E q \in RefPoints(n) :
            st[q[1]][q[2]] = EMPTY /\ \E s \in g : RefTouch(s, q)

\* The grid with the points of g emptied.
RefClear(st, n, g) ==
    [x \in 1..n |-> [y \in 1..n |-> IF <<x, y>> \in g THEN EMPTY ELSE st[x][y]]]

\* The grid after the stone of the last play_move is placed.
RefPlaced == [last.pre EXCEPT ![last.x][last.y] = last.colour]

\* The stones of the opponent groups touching the stone placed at p that
\* have no liberty once it is placed.
RefDeadOpponents(placed, n, colour, p) ==
    LET opp == IF colour = WHITE THEN BLACK ELSE WHITE
    IN  UNION {RefGroup(placed, n, q) :
                 q \in {q \in RefPoints(n) :
                          /\ RefTouch(q, p)
                          /\ placed[q[1]][q[2]] = opp
                          /\ ~RefHasLiberty(placed, n, q)}}

\* The grid the rules give: captures first, then the suicide test.
RefAfterPlay(placed, n, dead, p) ==
    LET captured == RefClear(placed, n, dead)
    IN  IF RefHasLiberty(captured, n, p)
        THEN captured
        ELSE RefClear(captured, n, RefGroup(captured, n, p))

Played == last.kind = "play" /\ last.exc = "none"

\* ------------------------------------------------------------------------
\* The rule engine on its own: sequences of calls
\* ------------------------------------------------------------------------

\* Every stone of the grid is in a group with a liberty.
RefAllAlive(st, n) ==
    \A p \in RefPoints(n) : st[p[1]][p[2]] # EMPTY => RefHasLiberty(st, n, p)

\* The boards a sequence of plays starts from: the empty board and every
\* other board on which each group has a liberty.
LiveBoards(n) == {b \in AllBoards(n) : RefAllAlive(b.state, n)}

PlayInit ==
    /\ MainIdle
    /\ \E n \in 1..MaxSize : board \in LiveBoards(n)
    /\ last = NoOp

\* One call of play_move in a sequence of calls; of the call the history
\* keeps what the point played on held before.
PlayOn(b, colour, x, y, o) ==
    LET r == play_move(b, colour, x, y, o)
    IN  [board |-> r.board,
         last |-> [NoOp EXCEPT !.kind = "play",
                               !.pre = <<(<<b.state[x][y]>>)>>,
                               !.exc = r.exc]]

\* One more call of play_move on a point of the board, empty or occupied,
\* unless an assertion has ended the program.
PlayAgain ==
    /\ last.exc = "none"
    /\ \E colour \in {BLACK, WHITE}, x, y \in 1..board.boardsize, o \in Orders :
          \E r \in {PlayOn(board, colour, x, y, o)} :
              /\ board' = r.board
              /\ last' = r.last
    /\ UNCHANGED mainVars

PlayNext == PlayAgain

SpecPlay == PlayInit /\ [][PlayNext]_vars

\* ------------------------------------------------------------------------
\* C2
\* ------------------------------------------------------------------------

\* C2: after every on-board play_move the grid is the one obtained by
\* placing the stone, removing the touching opponent groups that have no
\* liberty, and only then removing the placed stone's group if it has no
\* liberty.  (a) With no opponent group to remove and no liberty for the
\* placed stone's group, that whole group is removed; (b) when an opponent
\* group is removed the placed stone stays on the board.
C2_CaptureBeforeSuicide ==
    Played =>
        LET n == board.boardsize
            p == <<last.x, last.y>>
            placed == RefPlaced
            dead == RefDeadOpponents(placed, n, last.colour, p)
        IN  /\ board.state = RefAfterPlay(placed, n, dead, p)
            /\ (dead = {} /\ ~RefHasLiberty(placed, n, p))
                  => \A q \in RefGroup(placed, n, p) :
                        board.state[q[1]][q[2]] = EMPTY
            /\ dead # {}
                  => /\ board.state[last.x][last.y] = last.colour
                     /\ \A q \in dead : board.state[q[1]][q[2]] = EMPTY

\* C2 witness: a placed stone without a liberty of its own whose placement
\* removes an opponent group, and which therefore stays.
C2_Witness ==
    /\ Played
    /\ RefDeadOpponents(RefPlaced, board.boardsize, last.colour,
                        <<last.x, last.y>>) # {}
    /\ ~RefHasLiberty(RefPlaced, board.boardsize, <<last.x, last.y>>)
    /\ board.state[last.x][last.y] = last.colour

\* ------------------------------------------------------------------------
\* C7
\* ------------------------------------------------------------------------

\* The sequence s holds no element twice.
NoRepeat(s) == \A i, j \in 1..Len(s) : i # j => s[i] # s[j]

\* C7: on every board and for every occupied point, group_has_liberties
\* ends without an assertion failing and without visiting a stone twice,
\* visits only stones of the point's group, and answers TRUE exactly when
\* the group has a liberty, whatever the iteration order.
C7_LibertiesAgreeWithFloodFill ==
    last.kind = "none" =>
        \A p \in RefPoints(board.boardsize), o \in Orders :
            board.state[p[1]][p[2]] # EMPTY =>
                LET g == group_has_liberties(board.state, board.boardsize, p, o)
                IN  /\ g.ok
                    /\ NoRepeat(g.visits)
                    /\ g.checked = {g.visits[i] : i \in 1..Len(g.visits)}
                    /\ g.checked \subseteq RefGroup(board.state, board.boardsize, p)
                    /\ g.res = RefHasLiberty(board.state, board.boardsize, p)

Ring == <<(<<BLACK, BLACK, BLACK>>), (<<BLACK, EMPTY, BLACK>>),
          (<<BLACK, BLACK, BLACK>>)>>

\* C7 witness: the ring of 8 stones around one empty point, on which the
\* search started in a corner walks the cycle and finds the liberty.
C7_Witness ==
    /\ last.kind = "none"
    /\ board.state = Ring
    /\ \A o \in Orders :
          LET g == group_has_liberties(board.state, 3, <<1, 1>>, o)
          IN  g.res /\ Len(g.visits) >= 2

\* The grid the rules give for a stone of the colour played at p on st.
RefPlayOn(st, n, colour, p) ==
    LET placed == [st EXCEPT ![p[1]][p[2]] = colour]
    IN  RefAfterPlay(placed, n, RefDeadOpponents(placed, n, colour, p), p)

\* ------------------------------------------------------------------------
\* The tree walk: what the claims speak of
\* ------------------------------------------------------------------------

KeyB == <<66>>

KeyW == <<87>>

\* The board object of node m.
BoardOf(m) == heap[nodes[m].board]

\* The size of the board of the tree being walked.
WalkSize == BoardOf(1).boardsize

\* The value s of a B or W key is shorter than 2 characters or decodes to
\* a point outside 1..n.
BadMoveValue(s, n) ==
    \/ Len(s) < 2
    \/ s[1] - 96 < 1 \/ s[1] - 96 > n
    \/ s[2] - 96 < 1 \/ s[2] - 96 > n

\* The B and W keys of a properties dict.
MoveKeys(props) == {k \in {KeyB, KeyW} : HasKey(props, k)}

HasBadMove(props, n) ==
    \E k \in MoveKeys(props) : BadMoveValue(Lookup(props, k)[1], n)

AdderKeys(props) == {k \in {<<65, 66>>, <<65, 87>>, <<65, 69>>} : HasKey(props, k)}

\* load has returned the tree of the current file.
LoadReturned == pc = "save"

\* ------------------------------------------------------------------------
\* C1
\* ------------------------------------------------------------------------

\* C1: when update has run on a node whose B or W value is shorter than 2
\* characters or off the board, nothing is raised and the walk goes on;
\* the node's moves_made is its parent's plus one per mover key; and with
\* no on-board move and no setup key its board is the copy of its parent's.
C1_OffBoardMoveSwallowed ==
    (/\ cur # 0
     /\ pc \in {"branch", "except"}
     /\ HasBadMove(nodes[cur].props, WalkSize))
    => /\ pc = "branch"
       /\ exc = "none"
       /\ nodes[cur].moves_made =
             (IF cur = 1 THEN 0 ELSE nodes[Parent[cur]].moves_made)
             + Cardinality(MoveKeys(nodes[cur].props))
       /\ (/\ cur # 1
           /\ AdderKeys(nodes[cur].props) = {}
           /\ \A k \in MoveKeys(nodes[cur].props) :
                 BadMoveValue(Lookup(nodes[cur].props, k)[1], WalkSize))
          => BoardOf(cur) = BoardOf(Parent[cur])

\* ------------------------------------------------------------------------
\* C3
\* ------------------------------------------------------------------------

\* The root's properties as the adapter left them.
AdapterRoot == argv[fi].props[1]

\* The board size the root resolves to: the number its SZ value writes,
\* 19 without SZ.
RefSize ==
    IF HasKey(AdapterRoot, <<83, 90>>)
    THEN CHOOSE k \in -9..29 : StrOfInt(k) = Lookup(AdapterRoot, <<83, 90>>)[1]
    ELSE 19

\* The key is in the dict once, with the one value.
HoldsExactly(props, key, value) ==
    /\ Cardinality({i \in 1..Len(props) : props[i].key = key}) = 1
    /\ Lookup(props, key) = <<value>>

\* The adapter has built a tree for the current file.
Parsed == fi >= 1 /\ pc \notin {"load", "main", "done"} /\ nodes # <<>>

\* C3: when load returns, the root holds FF[4], GM[1] and CA[UTF-8], each
\* once and with that one value, SZ[19] if the adapter gave no SZ, and a
\* board of the resolved size, which is in 1..19.  With a resolved size
\* outside 1..19 load raises BadBoardSize: no board is ever created, no
\* node is walked and load does not return.
C3_RootForcedAndSizeChecked ==
    /\ LoadReturned =>
          /\ HoldsExactly(nodes[1].props, <<70, 70>>, <<52>>)
          /\ HoldsExactly(nodes[1].props, <<71, 77>>, <<49>>)
          /\ HoldsExactly(nodes[1].props, <<67, 65>>, <<85, 84, 70, 45, 56>>)
          /\ ~HasKey(AdapterRoot, <<83, 90>>)
                => HoldsExactly(nodes[1].props, <<83, 90>>, <<49, 57>>)
          /\ WalkSize = RefSize
          /\ RefSize \in 1..19
    /\ (Parsed /\ RefSize \notin 1..19) =>
          /\ pc \in {"root", "except"}
          /\ pc = "except" => exc = "BadBoardSize"
          /\ heap = <<>>
          /\ \A m \in 1..Len(nodes) :
                nodes[m].board = 0 /\ nodes[m].moves_made = 0
          /\ fi \notin loaded
    /\ exc = "BadBoardSize" => RefSize \notin 1..19

\* C3 witness: load has returned a tree whose adapter had stored FF[3] and
\* GM[2] on the root.
C3_Witness ==
    /\ LoadReturned
    /\ HasKey(AdapterRoot, <<70, 70>>)
    /\ Lookup(AdapterRoot, <<70, 70>>) = <<(<<51>>)>>
    /\ Lookup(nodes[1].props, <<70, 70>>) = <<(<<52>>)>>
    /\ WalkSize = 1

\* BadBoardSize is raised for a size above 19 and for one below 1.
C3_BadSizeSeen ==
    /\ exc = "BadBoardSize"
    /\ RefSize = 20

\* ------------------------------------------------------------------------
\* C4
\* ------------------------------------------------------------------------

\* The files written so far.
WrittenFiles == {out[i].file : i \in 1..Len(out)}

\* What holds of the files handled so far: they were handled in the order
\* of the command line, each once; a file was written exactly when its
\* load returned, and once; a failed file was reported and not written;
\* and main ends only after the last file.
C4_Handled ==
    /\ Len(log) \in {fi - 1, fi}
    /\ \A i \in 1..Len(log) :
          /\ log[i].file = i
          /\ log[i].did = "written" <=> i \in loaded
          /\ log[i].did = "failed" <=> i \notin loaded
          /\ Cardinality({k \in 1..Len(out) : out[k].file = i})
                = IF i \in loaded THEN 1 ELSE 0
    /\ WrittenFiles \subseteq loaded
    /\ pc = "done" => Len(log) = Len(argv)

\* C4: every file of the command line is handled, in order and in spite of
\* the failure of an earlier one; a file is written only if its load
\* returned, and a failed one is reported and skipped.
C4_FilesIsolated ==
    [](C4_Handled) /\ <>(pc = "done" /\ Len(log) = Len(argv))

\* C4 witness: the first of two files has failed and the second has been
\* written.
C4_Witness ==
    /\ pc = "done"
    /\ Len(argv) = 2
    /\ log[1].did = "failed"
    /\ log[2].did = "written"
    /\ WrittenFiles = {2}

\* ------------------------------------------------------------------------
\* C5
\* ------------------------------------------------------------------------

TokOpen == <<40>>

TokSemi == <<59>>

TokClose == <<41, 10>>

\* The tree of the current file has just been written.
Written ==
    /\ pc = "main"
    /\ fi >= 1
    /\ Len(log) = fi
    /\ log[fi].did = "written"
    /\ out # <<>>
    /\ out[Len(out)].file = fi

\* Where the token stands in the text.
Occurrences(t, tok) == {i \in 1..Len(t) : t[i] = tok}

\* Where the j-th ";" stands.
SemiPos(t, j) ==
    CHOOSE i \in Occurrences(t, TokSemi) :
        Cardinality({k \in Occurrences(t, TokSemi) : k <= i}) = j

Structural(tok) == tok \in {TokOpen, TokSemi, TokClose}

\* The first "(", ";" or ")" after position i, Len(t) + 1 if none.
NextStruct(t, i) ==
    IF \E k \in (i + 1)..Len(t) : Structural(t[k])
    THEN CHOOSE k \in (i + 1)..Len(t) :
            /\ Structural(t[k])
            /\ \A h \in (i + 1)..(k - 1) : ~Structural(t[h])
    ELSE Len(t) + 1

RECURSIVE RefOffset(_, _)

\* How far after its ";" the i-th key of a node is written.
RefOffset(props, i) ==
    IF i = 1 THEN 1
    ELSE RefOffset(props, i - 1) + 1 + Len(props[i - 1].vals)

\* After the j-th ";" come the keys of node j in order, each followed by
\* its values in brackets, and nothing else.
ChunkOk(t, j) ==
    LET s == SemiPos(t, j)
        props == nodes[j].props
    IN  /\ NextStruct(t, s) - s = RefOffset(props, Len(props) + 1)
        /\ \A i \in 1..Len(props) :
              /\ t[s + RefOffset(props, i)] = props[i].key
              /\ \A v \in 1..Len(props[i].vals) :
                    t[s + RefOffset(props, i) + v]
                       = <<91>> \o props[i].vals[v] \o <<93>>

\* The nodes a "(" is written for.
Opens(j) == j = 1 \/ Len(Children(Parent, Parent[j])) >= 2

\* The last node of the sub-tree of j in depth-first order.
RefLast(j) ==
    CHOOSE m \in j..Len(nodes) :
        /\ IsAncestorOrSelf(Parent, j, m)
        /\ \A h \in (m + 1)..Len(nodes) : ~IsAncestorOrSelf(Parent, j, h)

\* What follows the properties of node j: ";" of an only child, "(" of the
\* first of several children, and after a leaf one ")\n" for each "(" whose
\* sub-tree ends with that leaf, and no more.
AfterOk(t, j) ==
    LET e == NextStruct(t, SemiPos(t, j))
        kids == Children(Parent, j)
        closing == Cardinality({a \in 1..Len(nodes) : Opens(a) /\ RefLast(a) = j})
    IN  /\ e <= Len(t)
        /\ Len(kids) = 1 => t[e] = TokSemi
        /\ Len(kids) >= 2 => t[e] = TokOpen
        /\ Len(kids) = 0 =>
              /\ e + closing - 1 <= Len(t)
              /\ \A k \in e..(e + closing - 1) : t[k] = TokClose
              /\ e + closing <= Len(t) => t[e + closing] # TokClose

\* C5: the text written for a tree has one ";" per node, the j-th followed
\* by the properties of the j-th node in depth-first first-child-first
\* order; a "(" stands before the ";" of the root and of each child of a
\* node with two or more children, and nowhere else; every "(" is closed
\* by one ")\n" after its whole sub-tree; a tree without branching has one
\* "(" and one ")".
C5_WriteTreeStructure ==
    Written =>
        LET t == out[Len(out)].text
            N == Len(nodes)
            opens == Occurrences(t, TokOpen)
            closes == Occurrences(t, TokClose)
        IN  /\ Cardinality(Occurrences(t, TokSemi)) = N
            /\ \A j \in 1..N : ChunkOk(t, j) /\ AfterOk(t, j)
            /\ \A j \in 1..N : t[SemiPos(t, j) - 1] = TokOpen <=> Opens(j)
            /\ \A i \in opens : i < Len(t) /\ t[i + 1] = TokSemi
            /\ Cardinality(opens) = Cardinality({j \in 1..N : Opens(j)})
            /\ Cardinality(closes) = Cardinality(opens)
            /\ \A k \in 1..(Len(t) - 1) :
                  Cardinality({i \in opens : i <= k})
                     > Cardinality({i \in closes : i <= k})
            /\ t[1] = TokOpen /\ t[Len(t)] = TokClose
            /\ (\A j \in 1..N : Len(Children(Parent, j)) <= 1)
                  => Cardinality(opens) = 1 /\ Cardinality(closes) = 1

\* C5 witness: a root with two children, the second with a child of its
\* own, written with three "(" and four ";".
C5_Witness ==
    /\ Written
    /\ Parent = <<0, 1, 1, 3>>
    /\ Cardinality(Occurrences(out[Len(out)].text, TokOpen)) = 3
    /\ Cardinality(Occurrences(out[Len(out)].text, TokSemi)) = 4

\* A chain without branching is written with one "(" and one ")".
C5_ChainSeen ==
    /\ Written
    /\ Parent = <<0, 1, 2, 3>>
    /\ Cardinality(Occurrences(out[Len(out)].text, TokOpen)) = 1

\* ------------------------------------------------------------------------
\* C6
\* ------------------------------------------------------------------------

\* Node m is the first child of its parent.
IsFirstChild(m) == m # 1 /\ Children(Parent, Parent[m])[1] = m

MainLine == {m \in 1..Len(nodes) : nodes[m].is_main_line}

\* C6: after the walk a node is on the main line exactly when it is the
\* root or the first child of a main-line node, and the main line is one
\* path from the root to a leaf.
C6_MainLineIsFirstChildren ==
    LoadReturned =>
        /\ \A m \in 1..Len(nodes) :
              nodes[m].is_main_line <=>
                 (m = 1 \/ (IsFirstChild(m) /\ nodes[Parent[m]].is_main_line))
        /\ \A m \in MainLine :
              LET kids == Children(Parent, m)
              IN  Cardinality({c \in MainLine : Parent[c] = m})
                     = IF Len(kids) = 0 THEN 0 ELSE 1

\* C6 witness: the root has two children and the second has a child;
\* neither the second child nor its child is on the main line.
C6_Witness ==
    /\ LoadReturned
    /\ Parent = <<0, 1, 1, 3>>
    /\ MainLine = {1, 2}

\* ------------------------------------------------------------------------
\* C8
\* ------------------------------------------------------------------------

\* No two nodes hold the same Board object.
BoardsDistinct ==
    \A m, k \in 1..Len(nodes) :
        (m # k /\ nodes[m].board # 0) => nodes[m].board # nodes[k].board

\* At the end of the walk every board is its parent's final board with the
\* node's own properties applied.
BoardsFromParents ==
    LoadReturned =>
        \A m \in 2..Len(nodes), o \in Orders :
            LET r == update(BoardOf(Parent[m]), nodes[Parent[m]].moves_made,
                            nodes[m].props, o)
            IN  r.exc = "none" /\ BoardOf(m) = r.board

\* A step of the walk changes the board of no node but the one being
\* updated.
OthersUntouched ==
    pc \in {"update", "branch", "return"} =>
        \A m \in 1..Len(nodes) :
            (nodes[m].board # 0 /\ ~(pc = "update" /\ m = cur))
            => /\ nodes'[m].board = nodes[m].board
               /\ heap'[nodes[m].board] = heap[nodes[m].board]

\* C8: during and after the walk no two nodes hold the same Board object,
\* updating a node changes no other node's board, and at the end each
\* board is the parent's final board with the node's properties applied.
C8_BoardsNotShared ==
    [](BoardsDistinct /\ BoardsFromParents) /\ [][OthersUntouched]_vars

\* C8 witness: two siblings have played different moves on their copies of
\* the root's board, which is still empty.
C8_Witness ==
    /\ LoadReturned
    /\ Parent = <<0, 1, 1>>
    /\ WalkSize = 2
    /\ BoardOf(1).state = NewBoard(2).state
    /\ BoardOf(2).state[1][1] = BLACK
    /\ BoardOf(3).state[1][1] = EMPTY
    /\ BoardOf(3).state[1][2] = WHITE

\* ------------------------------------------------------------------------
\* C9
\* ------------------------------------------------------------------------

RECURSIVE RefMovesOnPath(_)

\* The number of B and W keys on the nodes from the root to m.
RefMovesOnPath(m) ==
    IF m = 0 THEN 0
    ELSE Cardinality(MoveKeys(nodes[m].props)) + RefMovesOnPath(Parent[m])

AllMovesOnBoard ==
    \A m \in 1..Len(nodes) : ~HasBadMove(nodes[m].props, WalkSize)

\* The point a move value decodes to.
PointOf(s) == <<s[1] - 96, s[2] - 96>>

\* C9: with every move on the board, after the walk moves_made of a node
\* is the number of B and W keys from the root to it; a node with both B
\* and W has its parent's moves_made plus 2 and the board obtained by
\* playing B, then W, then the setup keys, on its parent's final board.
C9_MovesCounted ==
    (LoadReturned /\ AllMovesOnBoard) =>
        \A m \in 1..Len(nodes) :
            /\ nodes[m].moves_made = RefMovesOnPath(m)
            /\ (m # 1 /\ MoveKeys(nodes[m].props) = {KeyB, KeyW}) =>
                  LET n == WalkSize
                      b0 == BoardOf(Parent[m])
                      b1 == RefPlayOn(b0.state, n, BLACK,
                                      PointOf(Lookup(nodes[m].props, KeyB)[1]))
                      b2 == RefPlayOn(b1, n, WHITE,
                                      PointOf(Lookup(nodes[m].props, KeyW)[1]))
                  IN  /\ nodes[m].moves_made = nodes[Parent[m]].moves_made + 2
                      /\ BoardOf(m) = UpdateAdders([b0 EXCEPT !.state = b2],
                                                   nodes[m].props, 1)

\* C9 witness: a node that stores W[aa] before B[aa] ends with a white
\* stone on (1,1) and two moves more than its parent, and a setup node
\* has the moves_made of its parent.
C9_Witness ==
    /\ LoadReturned
    /\ \E m \in 2..Len(nodes) :
          /\ MoveKeys(nodes[m].props) = {KeyB, KeyW}
          /\ nodes[m].props[1].key = KeyW
          /\ BoardOf(m).state[1][1] = WHITE
          /\ nodes[m].moves_made = nodes[Parent[m]].moves_made + 2
    /\ \E k \in 2..Len(nodes) :
          /\ MoveKeys(nodes[k].props) = {}
          /\ AdderKeys(nodes[k].props) # {}
          /\ nodes[k].moves_made = nodes[Parent[k]].moves_made
          /\ nodes[k].moves_made > 0

\* ------------------------------------------------------------------------
\* C10
\* ------------------------------------------------------------------------

RefMin(i, j) == IF i <= j THEN i ELSE j

RefMax(i, j) == IF i <= j THEN j ELSE i

\* (x, y) lies in the rectangle spanned by the first two and the last two
\* characters of the value v.
RefInRange(v, x, y) ==
    /\ Len(v) >= 2
    /\ RefMin(v[1] - 96, v[Len(v) - 1] - 96) <= x
    /\ x <= RefMax(v[1] - 96, v[Len(v) - 1] - 96)
    /\ RefMin(v[2] - 96, v[Len(v)] - 96) <= y
    /\ y <= RefMax(v[2] - 96, v[Len(v)] - 96)

\* The points of the board holding the colour c.
PointsOf(c) ==
    {p \in RefPoints(board.boardsize) : board.state[p[1]][p[2]] = c}

\* C10: a setup value sets exactly the on-board points of its rectangle to
\* the adder's colour and leaves every other cell as it was (nothing is
\* captured); a value shorter than 2 characters changes nothing; on the
\* empty 19x19 board "dd:pp" sets exactly the 169 points of 4..16 x 4..16.
C10_SetupSetsExactlyTheRange ==
    last.kind = "add" =>
        /\ DOMAIN board.state = 1..board.boardsize
        /\ \A x, y \in 1..board.boardsize :
              board.state[x][y] =
                 IF RefInRange(last.value, x, y) THEN last.colour
                 ELSE last.pre[x][y]
        /\ Len(last.value) < 2 => board.state = last.pre
        /\ (/\ board.boardsize = DefaultSize
            /\ last.pre = NewBoard(DefaultSize).state
            /\ last.colour = BLACK
            /\ last.value = <<100, 100, 58, 112, 112>>)
              => /\ Cardinality(PointsOf(BLACK)) = 169
                 /\ PointsOf(BLACK) = (4..16) \X (4..16)

\* C10 witness: a value given high corner first and reaching off the board
\* has filled the whole 3x3 board with one colour, which stays although
\* the group has no liberty.
C10_Witness ==
    /\ last.kind = "add"
    /\ board.boardsize = 3
    /\ last.value = <<100, 99, 58, 96, 97>>
    /\ last.colour = WHITE
    /\ last.pre = NewBoard(3).state
    /\ PointsOf(WHITE) = RefPoints(3)
    /\ ~RefHasLiberty(board.state, 3, <<2, 2>>)

\* The 169-point example of C10 occurs.
C10_Example169 ==
    /\ last.kind = "add"
    /\ board.boardsize = DefaultSize
    /\ last.pre = NewBoard(DefaultSize).state
    /\ last.value = <<100, 100, 58, 112, 112>>
    /\ last.colour = BLACK
    /\ Cardinality(PointsOf(BLACK)) = 169

\* ------------------------------------------------------------------------
\* C11
\* ------------------------------------------------------------------------

\* C11: from the empty board, or any board on which every group has a
\* liberty, after any sequence of play_move calls on points of the board,
\* empty or occupied, of either colour, no assertion has tripped and no
\* stone of the board is in a group without liberty.
C11_NoDeadGroupAfterPlays ==
    /\ last.exc = "none"
    /\ RefAllAlive(board.state, board.boardsize)

\* The number of stones of a colour on the board.
StonesOf(c) ==
    Cardinality({p \in RefPoints(board.boardsize) :
                    board.state[p[1]][p[2]] = c})

\* C11 witness: on a board of size 3 a stone played onto a black stone has
\* left white stones only, at least two points being empty.
C11_Witness ==
    /\ Played
    /\ board.boardsize = 3
    /\ last.pre[1][1] = BLACK
    /\ StonesOf(BLACK) = 0
    /\ StonesOf(WHITE) \in 1..7

\* A play on an empty point has left the board of size 3 empty: the stone
\* had no liberty and captured nothing.
C11_EmptiedSeen ==
    /\ Played
    /\ board.boardsize = 3
    /\ last.pre[1][1] = EMPTY
    /\ StonesOf(BLACK) + StonesOf(WHITE) = 0

=============================================================================
